---- MODULE Spec2Model ----
(***************************************************************************)
(* The browser-side Parquet bridge of lonboard: the one-shot WASM loader   *)
(* (initParquetWasm / useParquetWasm), the decoder (parseParquet) and the  *)
(* two reactive hooks (useTableBufferState, useAccessorState).             *)
(*                                                                         *)
(* React's scheduling is modelled as it is documented: a render captures   *)
(* the hook's arguments, the effects of that render whose dependency       *)
(* array changed (Object.is on each entry) are pending, and every pending  *)
(* effect of a render runs before the next render of the same component.   *)
(* An error thrown by an effect unmounts the component tree.               *)
(***************************************************************************)
EXTENDS Integers, Sequences, FiniteSets, TLC

\* Re-renders of the component that owns the two data hooks, after its mount.
MaxRenders == 3

\* Components that call useParquetWasm(); Owner also calls the two data hooks
\* with the wasmReady its useParquetWasm() returned.
Comps == {"c1", "c2"}
Owner == "c1"

(***************************************************************************)
(* Values.  JavaScript values of different types are tagged records, so    *)
(* that null, a table, a column and a plain array can be compared.         *)
(***************************************************************************)
Null == [kind |-> "null"]
Table(n, cols) == [kind |-> "table", numRows |-> n, columns |-> cols]
Vector(xs) == [kind |-> "vector", data |-> xs]
Plain(xs) == [kind |-> "plain", data |-> xs]

\* DataView references handed over by the widget channel.  Each is a view of
\* a whole ArrayBuffer of its own; dvA and dvA2 are two distinct references
\* with byte-identical content, dvEmpty has byteLength 0, dvBad is truncated.
DataViews == {"dvA", "dvA2", "dvT", "dvEmpty", "dvBad"}
\* Plain (non DataView) accessor inputs, e.g. get_color = [200, 0, 200].
PlainRefs == {"rgb"}
Absent == "absent"
\* The published value was derived from no input (it is the initial null, or
\* a null published for an input that is not decoded).
NoSource == "none"

\* The bytes behind each DataView.  The transport framing is abstracted to
\* <<80, ncols, nrows, column-major values ..., 80>> (80 stands for the
\* magic that opens and closes a Parquet file).
Bytes(v) ==
    CASE v = "dvA" -> <<80, 1, 2, 1, 9, 80>>
      [] v = "dvA2" -> <<80, 1, 2, 1, 9, 80>>
      [] v = "dvT" -> <<80, 2, 2, 3, 4, 5, 6, 80>>
      [] v = "dvEmpty" -> <<>>
      [] v = "dvBad" -> <<80, 1, 2, 7>>

PlainValue(p) ==
    CASE p = "rgb" -> <<200, 0, 200>>

byteLength(v) == Len(Bytes(v))

\* readParquet(new Uint8Array(dataView.buffer)): the wasm reader; it fails on
\* bytes that are not a well-framed file.
readParquet(b) ==
    IF /\ Len(b) >= 4
       /\ b[1] = 80
       /\ b[Len(b)] = 80
       /\ b[2] >= 1
       /\ Len(b) = 4 + b[2] * b[3]
    THEN [ok |-> TRUE, ncols |-> b[2], nrows |-> b[3],
          body |-> SubSeq(b, 4, Len(b) - 1)]
    ELSE [ok |-> FALSE, ncols |-> 0, nrows |-> 0, body |-> <<>>]

\* A conversion that reads the column-major body as if it were row-major.
tableFromIPC_rowMajor(w) ==
    Table(w.nrows,
          [i \in 1..w.ncols |->
              [j \in 1..w.nrows |-> w.body[(j - 1) * w.ncols + i]]])

\* .intoIPC() followed by arrow.tableFromIPC(): the column-major body becomes
\* an Arrow table of ncols columns of nrows values each.
tableFromIPC(w) ==
    Table(w.nrows,
          [i \in 1..w.ncols |->
              [j \in 1..w.nrows |-> w.body[(i - 1) * w.nrows + j]]])

\* table.getChildAt(0): the first column, or null when there is none.
getChildAt0(t) ==
    IF t.kind = "table" /\ Len(t.columns) >= 1
    THEN Vector(t.columns[1])
    ELSE Null

VARIABLES
    WASM_READY,    \* the module-level flag
    initCalls,     \* number of _initParquetWasm(url) invocations so far
    pc,            \* per component: where its useParquetWasm callback stands
    wasmReady,     \* per component: the wasmReady state of useParquetWasm
    tbl,           \* useTableBufferState of Owner: ready, raw: the arguments
                   \* of the last render; pending: its effect has yet to run;
                   \* value: dataTable; src: the reference value came from
    acc,           \* useAccessorState of Owner, likewise; value: accessorValue
    renders,       \* re-renders of Owner so far
    crashed,       \* an effect of Owner threw: its tree is unmounted
    last           \* what the last step did

vars == <<WASM_READY, initCalls, pc, wasmReady, tbl, acc, renders, crashed, last>>

Step(op, reads, err, result) ==
    [op |-> op, reads |-> reads, err |-> err, result |-> result]

\* parseParquet without its readiness guard.
parseParquet_unguarded(v) ==
    LET w == readParquet(Bytes(v)) IN
    IF w.ok
    THEN [err |-> "none", reads |-> 1, table |-> tableFromIPC(w)]
    ELSE [err |-> "decode error", reads |-> 1, table |-> Null]

\* parseParquet(dataView): throws "wasm not ready" before reading anything;
\* otherwise reads the bytes and converts them, or propagates the reader's error.
parseParquet(v) ==
    IF ~WASM_READY
    THEN [err |-> "wasm not ready", reads |-> 0, table |-> Null]
    ELSE LET w == readParquet(Bytes(v)) IN
         IF w.ok
         THEN [err |-> "none", reads |-> 1, table |-> tableFromIPC(w)]
         ELSE [err |-> "decode error", reads |-> 1, table |-> Null]

\* A dependency comparison that looks at the readiness flag only.
DepsChanged_readyOnly(old, new) ==
    old.ready # new.ready

\* A dependency comparison by content instead of by reference.
DepsChanged_byContent(old, new) ==
    \/ old.ready # new.ready
    \/ IF old.raw \in DataViews /\ new.raw \in DataViews
       THEN Bytes(old.raw) # Bytes(new.raw)
       ELSE old.raw # new.raw

\* A dependency comparison that looks at the buffer only.
DepsChanged_rawOnly(old, new) ==
    old.raw # new.raw

\* React's comparison of two dependency arrays [wasmReady, raw]: Object.is on
\* each entry, i.e. reference identity for the DataView.
DepsChanged(old, new) ==
    \/ old.ready # new.ready
    \/ old.raw # new.raw

Init ==
    /\ WASM_READY = FALSE
    /\ initCalls = 0
    /\ pc = [c \in Comps |-> "unmounted"]
    /\ wasmReady = [c \in Comps |-> FALSE]
    /\ tbl = [ready |-> FALSE, raw |-> Absent, pending |-> FALSE,
              value |-> Null, src |-> NoSource]
    /\ acc = [ready |-> FALSE, raw |-> Absent, pending |-> FALSE,
              value |-> Null, src |-> NoSource]
    /\ renders = 0
    /\ crashed = FALSE
    /\ last = Step("init", 0, "none", Null)

\* A component mounts: useState(false), useState(null), and every effect of
\* the first render is pending.
Mount(c, d, a) ==
    /\ pc[c] = "unmounted"
    /\ pc' = [pc EXCEPT ![c] = "mounted"]
    /\ IF c = Owner
       THEN /\ tbl' = [ready |-> FALSE, raw |-> d, pending |-> TRUE,
                         value |-> Null, src |-> NoSource]
            /\ acc' = [ready |-> FALSE, raw |-> a, pending |-> TRUE,
                         value |-> Null, src |-> NoSource]
       ELSE UNCHANGED <<tbl, acc>>
    /\ last' = Step("mount", 0, "none", Null)
    /\ UNCHANGED <<WASM_READY, initCalls, wasmReady, renders, crashed>>

\* An initParquetWasm that sets the flag before the load has finished.
InitParquetWasm_setsEarly(c) ==
    /\ pc[c] = "mounted"
    /\ IF WASM_READY
       THEN /\ pc' = [pc EXCEPT ![c] = "resolved"]
            /\ UNCHANGED <<initCalls, WASM_READY>>
       ELSE /\ pc' = [pc EXCEPT ![c] = "loading"]
            /\ initCalls' = initCalls + 1
            /\ WASM_READY' = TRUE
    /\ last' = Step("initParquetWasm", 0, "none", Null)
    /\ UNCHANGED <<wasmReady, tbl, acc, renders, crashed>>

\* An initParquetWasm without its readiness test: every call loads.
InitParquetWasm_noGuard(c) ==
    /\ pc[c] = "mounted"
    /\ pc' = [pc EXCEPT ![c] = "loading"]
    /\ initCalls' = initCalls + 1
    /\ last' = Step("initParquetWasm", 0, "none", Null)
    /\ UNCHANGED <<WASM_READY, wasmReady, tbl, acc, renders, crashed>>

\* The mount effect of useParquetWasm calls initParquetWasm(): it returns at
\* once when WASM_READY, and otherwise starts _initParquetWasm and suspends.
InitParquetWasm(c) ==
    /\ pc[c] = "mounted"
    /\ IF WASM_READY
       THEN /\ pc' = [pc EXCEPT ![c] = "resolved"]
            /\ UNCHANGED initCalls
       ELSE /\ pc' = [pc EXCEPT ![c] = "loading"]
            /\ initCalls' = initCalls + 1
    /\ last' = Step("initParquetWasm", 0, "none", Null)
    /\ UNCHANGED <<WASM_READY, wasmReady, tbl, acc, renders, crashed>>

\* A resolved load after which the flag is not set.
LoadResolved_forgetsFlag(c) ==
    /\ pc[c] = "loading"
    /\ pc' = [pc EXCEPT ![c] = "resolved"]
    /\ last' = Step("loadResolved", 0, "none", Null)
    /\ UNCHANGED <<WASM_READY, initCalls, wasmReady, tbl, acc, renders, crashed>>

\* _initParquetWasm resolved: initParquetWasm resumes and sets the flag.
LoadResolved(c) ==
    /\ pc[c] = "loading"
    /\ WASM_READY' = TRUE
    /\ pc' = [pc EXCEPT ![c] = "resolved"]
    /\ last' = Step("loadResolved", 0, "none", Null)
    /\ UNCHANGED <<initCalls, wasmReady, tbl, acc, renders, crashed>>

\* A failed load that also clears the flag.
LoadRejected_clearsFlag(c) ==
    /\ pc[c] = "loading"
    /\ pc' = [pc EXCEPT ![c] = "rejected"]
    /\ WASM_READY' = FALSE
    /\ last' = Step("loadRejected", 0, "load error", Null)
    /\ UNCHANGED <<initCalls, wasmReady, tbl, acc, renders, crashed>>

\* A failed load whose error is swallowed: the call completes normally.
LoadRejected_swallowed(c) ==
    /\ pc[c] = "loading"
    /\ pc' = [pc EXCEPT ![c] = "resolved"]
    /\ last' = Step("loadRejected", 0, "load error", Null)
    /\ UNCHANGED <<WASM_READY, initCalls, wasmReady, tbl, acc, renders, crashed>>

\* _initParquetWasm rejected: initParquetWasm rejects, the flag is untouched
\* and the callback never reaches setWasmReady.
LoadRejected(c) ==
    /\ pc[c] = "loading"
    /\ pc' = [pc EXCEPT ![c] = "rejected"]
    /\ last' = Step("loadRejected", 0, "load error", Null)
    /\ UNCHANGED <<WASM_READY, initCalls, wasmReady, tbl, acc, renders, crashed>>

\* A useParquetWasm whose effect has no empty dependency array: the render
\* that follows setWasmReady runs the effect, and so initParquetWasm, again.
SetWasmReady_effectRunsAgain(c) ==
    /\ pc[c] = "resolved"
    /\ wasmReady' = [wasmReady EXCEPT ![c] = TRUE]
    /\ pc' = [pc EXCEPT ![c] = IF wasmReady[c] THEN "done" ELSE "mounted"]
    /\ last' = Step("setWasmReady", 0, "none", Null)
    /\ UNCHANGED <<WASM_READY, initCalls, tbl, acc, renders, crashed>>

\* The callback of useParquetWasm resumes after await initParquetWasm().
SetWasmReady(c) ==
    /\ pc[c] = "resolved"
    /\ wasmReady' = [wasmReady EXCEPT ![c] = TRUE]
    /\ pc' = [pc EXCEPT ![c] = "done"]
    /\ last' = Step("setWasmReady", 0, "none", Null)
    /\ UNCHANGED <<WASM_READY, initCalls, tbl, acc, renders, crashed>>

\* A render that does not wait for the effects of the render before it.
Render_beforeEffects(d, a) ==
    /\ pc[Owner] # "unmounted"
    /\ ~crashed
    /\ renders < MaxRenders
    /\ renders' = renders + 1
    /\ LET r == wasmReady[Owner] IN
       /\ tbl' = [tbl EXCEPT !.ready = r, !.raw = d,
                      !.pending = @ \/ DepsChanged(tbl, [ready |-> r, raw |-> d])]
       /\ acc' = [acc EXCEPT !.ready = r, !.raw = a,
                      !.pending = @ \/ DepsChanged(acc, [ready |-> r, raw |-> a])]
    /\ last' = Step("render", 0, "none", Null)
    /\ UNCHANGED <<WASM_READY, initCalls, pc, wasmReady, crashed>>

\* Owner renders again with the buffer d and the accessor a the widget model
\* holds now (the same references or new ones) and its current wasmReady.
Render(d, a) ==
    /\ pc[Owner] # "unmounted"
    /\ ~crashed
    /\ ~tbl.pending /\ ~acc.pending
    /\ renders < MaxRenders
    /\ renders' = renders + 1
    /\ LET r == wasmReady[Owner] IN
       /\ tbl' = [tbl EXCEPT !.ready = r, !.raw = d,
                      !.pending = DepsChanged(tbl, [ready |-> r, raw |-> d])]
       /\ acc' = [acc EXCEPT !.ready = r, !.raw = a,
                      !.pending = DepsChanged(acc, [ready |-> r, raw |-> a])]
    /\ last' = Step("render", 0, "none", Null)
    /\ UNCHANGED <<WASM_READY, initCalls, pc, wasmReady, crashed>>

\* The table condition without its byteLength test.
TableGuard_ignoresLength(ready, raw) ==
    ready /\ raw # Absent

\* The condition of the effect of useTableBufferState:
\* wasmReady && dataRaw && dataRaw.byteLength > 0.
TableGuard(ready, raw) ==
    ready /\ raw # Absent /\ byteLength(raw) > 0

\* A table callback that decodes but forgets to call setDataTable.
tableCallback_dropsResult(ready, raw) ==
    IF ready /\ raw # Absent /\ byteLength(raw) > 0
    THEN LET p == parseParquet(raw) IN
         [set |-> FALSE, value |-> p.table, reads |-> p.reads, err |-> p.err]
    ELSE [set |-> FALSE, value |-> Null, reads |-> 0, err |-> "none"]

\* A table callback that catches the reader's error and publishes what it has.
tableCallback_publishesOnError(ready, raw) ==
    IF ready /\ raw # Absent /\ byteLength(raw) > 0
    THEN LET p == parseParquet(raw) IN
         [set |-> TRUE, value |-> p.table, reads |-> p.reads, err |-> p.err]
    ELSE [set |-> FALSE, value |-> Null, reads |-> 0, err |-> "none"]

\* A table callback that publishes null when it does not decode.
tableCallback_clearsWhenIdle(ready, raw) ==
    IF ready /\ raw # Absent /\ byteLength(raw) > 0
    THEN LET p == parseParquet(raw) IN
         [set |-> p.err = "none", value |-> p.table,
          reads |-> p.reads, err |-> p.err]
    ELSE [set |-> TRUE, value |-> Null, reads |-> 0, err |-> "none"]

\* What one run of the callback of useTableBufferState does with the captured
\* (wasmReady, dataRaw): whether setDataTable is called and with what, how
\* often the reader is invoked, and the error thrown, if any.
tableCallback(ready, raw) ==
    IF TableGuard(ready, raw)
    THEN LET p == parseParquet(raw) IN
         [set |-> p.err = "none", value |-> p.table,
          reads |-> p.reads, err |-> p.err]
    ELSE [set |-> FALSE, value |-> Null, reads |-> 0, err |-> "none"]

\* A table effect that publishes only while nothing is published yet.
TableEffect_firstWins ==
    /\ tbl.pending
    /\ LET o == tableCallback(tbl.ready, tbl.raw) IN
       /\ tbl' = [tbl EXCEPT !.pending = FALSE,
                      !.value = IF o.set /\ tbl.value = Null THEN o.value ELSE @,
                      !.src = IF o.set /\ tbl.value = Null THEN tbl.raw ELSE @]
       /\ crashed' = (crashed \/ o.err # "none")
       /\ last' = Step("tableEffect", o.reads, o.err, o.value)
    /\ UNCHANGED <<WASM_READY, initCalls, pc, wasmReady, acc, renders>>

\* The effect of useTableBufferState runs.
TableEffect ==
    /\ tbl.pending
    /\ LET o == tableCallback(tbl.ready, tbl.raw) IN
       /\ tbl' = [tbl EXCEPT !.pending = FALSE,
                      !.value = IF o.set THEN o.value ELSE @,
                      !.src = IF o.set THEN tbl.raw ELSE @]
       /\ crashed' = (crashed \/ o.err # "none")
       /\ last' = Step("tableEffect", o.reads, o.err, o.value)
    /\ UNCHANGED <<WASM_READY, initCalls, pc, wasmReady, acc, renders>>

\* The accessor condition without its byteLength test.
AccessorGuard_ignoresLength(ready, raw) ==
    ready

\* The condition of the decoding branch of useAccessorState:
\* wasmReady && accessorRaw.byteLength > 0.
AccessorGuard(ready, raw) ==
    ready /\ byteLength(raw) > 0

\* An accessor callback that passes a plain value on only once wasm is ready.
accessorCallback_plainGated(ready, raw) ==
    IF raw \in DataViews
    THEN IF ready /\ byteLength(raw) > 0
         THEN LET p == parseParquet(raw) IN
              [set |-> p.err = "none",
               value |-> IF p.err = "none" THEN getChildAt0(p.table) ELSE Null,
               reads |-> p.reads, err |-> p.err]
         ELSE [set |-> TRUE, value |-> Null, reads |-> 0, err |-> "none"]
    ELSE [set |-> TRUE,
          value |-> IF raw = Absent \/ ~ready THEN Null ELSE Plain(PlainValue(raw)),
          reads |-> 0, err |-> "none"]

\* An accessor callback that publishes the whole table, not its first column.
accessorCallback_wholeTable(ready, raw) ==
    IF raw \in DataViews
    THEN IF ready /\ byteLength(raw) > 0
         THEN LET p == parseParquet(raw) IN
              [set |-> p.err = "none", value |-> p.table,
               reads |-> p.reads, err |-> p.err]
         ELSE [set |-> TRUE, value |-> Null, reads |-> 0, err |-> "none"]
    ELSE [set |-> TRUE,
          value |-> IF raw = Absent THEN Null ELSE Plain(PlainValue(raw)),
          reads |-> 0, err |-> "none"]

\* What one run of the callback of useAccessorState does with the captured
\* (wasmReady, accessorRaw).
accessorCallback(ready, raw) ==
    IF raw \in DataViews
    THEN IF AccessorGuard(ready, raw)
         THEN LET p == parseParquet(raw) IN
              [set |-> p.err = "none",
               value |-> IF p.err = "none" THEN getChildAt0(p.table) ELSE Null,
               reads |-> p.reads, err |-> p.err]
         ELSE [set |-> TRUE, value |-> Null, reads |-> 0, err |-> "none"]
    ELSE [set |-> TRUE,
          value |-> IF raw = Absent THEN Null ELSE Plain(PlainValue(raw)),
          reads |-> 0, err |-> "none"]

\* The effect of useAccessorState runs.
AccessorEffect ==
    /\ acc.pending
    /\ LET o == accessorCallback(acc.ready, acc.raw) IN
       /\ acc' = [acc EXCEPT !.pending = FALSE,
                      !.value = IF o.set THEN o.value ELSE @,
                      !.src = IF o.set
                              THEN (IF o.value = Null THEN NoSource ELSE acc.raw)
                              ELSE @]
       /\ crashed' = (crashed \/ o.err # "none")
       /\ last' = Step("accessorEffect", o.reads, o.err, o.value)
    /\ UNCHANGED <<WASM_READY, initCalls, pc, wasmReady, tbl, renders>>

\* A parseParquet call that clears the readiness flag when the reader fails.
CallParseParquet_resetsOnError(v) ==
    /\ LET p == parseParquet(v) IN
       /\ last' = Step("parseParquet", p.reads, p.err, p.table)
       /\ WASM_READY' = (WASM_READY /\ p.err # "decode error")
    /\ UNCHANGED <<initCalls, pc, wasmReady, tbl, acc, renders, crashed>>

\* Any module calls the exported parseParquet(dataView) directly.
CallParseParquet(v) ==
    /\ LET p == parseParquet(v) IN
       last' = Step("parseParquet", p.reads, p.err, p.table)
    /\ UNCHANGED <<WASM_READY, initCalls, pc, wasmReady, tbl, acc, renders, crashed>>

Next ==
    \/ \E c \in Comps, d \in DataViews \cup {Absent},
          a \in DataViews \cup PlainRefs \cup {Absent} : Mount(c, d, a)
    \/ \E c \in Comps : InitParquetWasm(c)
    \/ \E c \in Comps : LoadResolved(c)
    \/ \E c \in Comps : LoadRejected(c)
    \/ \E c \in Comps : SetWasmReady(c)
    \/ \E d \in DataViews \cup {Absent},
          a \in DataViews \cup PlainRefs \cup {Absent} : Render(d, a)
    \/ TableEffect
    \/ AccessorEffect
    \/ \E v \in DataViews : CallParseParquet(v)

Spec == Init /\ [][Next]_vars

\* The render React schedules after setWasmReady(true) changed Owner's state:
\* the same buffer and accessor, the new wasmReady.
StateRerender ==
    /\ pc[Owner] # "unmounted"
    /\ ~crashed
    /\ ~tbl.pending /\ ~acc.pending
    /\ wasmReady[Owner] # tbl.ready
    /\ LET r == wasmReady[Owner] IN
       /\ tbl' = [tbl EXCEPT !.ready = r,
                      !.pending = DepsChanged(tbl, [ready |-> r, raw |-> tbl.raw])]
       /\ acc' = [acc EXCEPT !.ready = r,
                      !.pending = DepsChanged(acc, [ready |-> r, raw |-> acc.raw])]
    /\ last' = Step("render", 0, "none", Null)
    /\ UNCHANGED <<WASM_READY, initCalls, pc, wasmReady, renders, crashed>>

LiveNext ==
    \/ Next
    \/ StateRerender

\* What the event loop guarantees: a mounted effect runs, a load settles
\* (it resolves or it rejects), a resumed callback runs, a state change is
\* followed by a render and a pending effect runs.
Fairness ==
    /\ \A c \in Comps : WF_vars(InitParquetWasm(c))
    /\ \A c \in Comps : WF_vars(LoadResolved(c) \/ LoadRejected(c))
    /\ \A c \in Comps : WF_vars(SetWasmReady(c))
    /\ WF_vars(StateRerender)
    /\ WF_vars(TableEffect)
    /\ WF_vars(AccessorEffect)

LiveSpec == Init /\ [][LiveNext]_vars /\ Fairness

(***************************************************************************)
(* Properties                                                              *)
(***************************************************************************)

\* C1: however many calls of initParquetWasm were made, and however they
\* interleave, _initParquetWasm has been invoked exactly once as soon as any
\* call has got past the readiness test.
C1_InitExactlyOnce ==
    (\E c \in Comps : pc[c] \notin {"unmounted", "mounted"}) => initCalls = 1

\* C2: the readiness flag is monotonic: no step takes WASM_READY, or the
\* wasmReady state of any component, from true back to false.
C2_ReadyMonotonic ==
    [][/\ (WASM_READY => WASM_READY')
       /\ \A c \in Comps : wasmReady[c] => wasmReady'[c]]_vars

\* C2 witness: a load fails after the flag and a component's state are true.
C2_Witness ==
    /\ WASM_READY
    /\ wasmReady[Owner]
    /\ last.op = "loadRejected"

\* C3: parseParquet called while WASM_READY is false throws "wasm not ready"
\* at once: it returns nothing and never invokes the reader.
C3_NotReadyFailsFast ==
    (last.op = "parseParquet" /\ ~WASM_READY) =>
        (last.err = "wasm not ready" /\ last.reads = 0)

\* C3 witness: a direct call made while a load is still in flight.
C3_Witness ==
    /\ last.op = "parseParquet"
    /\ ~WASM_READY
    /\ \E c \in Comps : pc[c] = "loading"
    /\ last.err = "wasm not ready"

(***************************************************************************)
(* What the kernel encoded into each well-formed buffer: the columns of    *)
(* the logical table, against which decoded values are compared.           *)
(***************************************************************************)
WellFormed == {"dvA", "dvA2", "dvT"}

SourceColumns(v) ==
    CASE v = "dvA" -> << <<1, 9>> >>
      [] v = "dvA2" -> << <<1, 9>> >>
      [] v = "dvT" -> << <<3, 4>>, <<5, 6>> >>

SourceTable(v) == Table(Len(SourceColumns(v)[1]), SourceColumns(v))

\* Owner is mounted, no effect of it has thrown, and none is pending.
Settled ==
    /\ pc[Owner] # "unmounted"
    /\ ~crashed
    /\ ~tbl.pending
    /\ ~acc.pending

\* C4 (as claimed): once the effects have run, a non-null published table or
\* decoded column is the decode of the buffer reference supplied now, also
\* after the buffer was replaced by an empty or absent one.
C4_NeverStale ==
    Settled =>
        /\ (tbl.value # Null =>
               /\ tbl.raw \in WellFormed
               /\ tbl.src = tbl.raw
               /\ tbl.value = SourceTable(tbl.raw))
        /\ (acc.value.kind = "vector" =>
               /\ acc.raw \in WellFormed
               /\ acc.src = acc.raw
               /\ acc.value = Vector(SourceColumns(acc.raw)[1]))

\* C4 (amended): once the effects have run, a decoded column published by
\* useAccessorState is the decode of the buffer supplied now; a table
\* published by useTableBufferState is the decode of the buffer supplied now
\* whenever that buffer is non-empty, and otherwise (empty or absent buffer)
\* it is the retained decode of the last non-empty buffer that was decoded.
C4_NeverStaleNonEmpty ==
    Settled =>
        /\ ((tbl.value # Null /\ tbl.raw \in DataViews /\ Len(Bytes(tbl.raw)) > 0) =>
               /\ tbl.src = tbl.raw
               /\ tbl.value = SourceTable(tbl.raw))
        /\ (tbl.value # Null =>
               /\ tbl.src \in WellFormed
               /\ tbl.value = SourceTable(tbl.src))
        /\ (acc.value.kind = "vector" =>
               /\ acc.raw \in WellFormed
               /\ acc.src = acc.raw
               /\ acc.value = Vector(SourceColumns(acc.raw)[1]))

\* C4 witness: the table was replaced by the decode of a second buffer, and
\* the accessor holds the column of its own buffer.
C4_Witness ==
    /\ Settled
    /\ renders >= 2
    /\ tbl.raw = "dvT" /\ tbl.src = "dvT"
    /\ tbl.value = Table(2, << <<3, 4>>, <<5, 6>> >>)
    /\ acc.raw = "dvA2" /\ acc.value = Vector(<<1, 9>>)
    /\ last.op = "tableEffect"

\* C5: the decode gate is reference identity.  A re-render that supplies the
\* same reference with the same readiness leaves no effect pending, and the
\* reader is only ever invoked by a pending effect; a re-render that supplies
\* another reference, byte-identical or not, makes the effect pending, and
\* that effect, when ready with a non-empty buffer, invokes the reader.
C5_IdentityGate ==
    [][/\ (renders' = renders + 1 =>
              /\ ((tbl'.raw = tbl.raw /\ tbl'.ready = tbl.ready) => ~tbl'.pending)
              /\ ((acc'.raw = acc.raw /\ acc'.ready = acc.ready) => ~acc'.pending)
              /\ (tbl'.raw # tbl.raw => tbl'.pending)
              /\ (acc'.raw # acc.raw => acc'.pending))
       /\ ((last'.op = "tableEffect" /\ last'.reads > 0) => tbl.pending)
       /\ ((last'.op = "accessorEffect" /\ last'.reads > 0) => acc.pending)
       /\ ((tbl.pending /\ ~tbl'.pending /\ tbl.ready
              /\ tbl.raw \in DataViews /\ Len(Bytes(tbl.raw)) > 0) => last'.reads = 1)
       /\ ((acc.pending /\ ~acc'.pending /\ acc.ready
              /\ acc.raw \in DataViews /\ Len(Bytes(acc.raw)) > 0) => last'.reads = 1)
      ]_vars

\* C5 witness: the table decoded from dvA is published, a re-render supplied
\* the distinct, byte-identical dvA2, and the second decode is pending.
C5_Witness ==
    /\ last.op = "render"
    /\ tbl.ready
    /\ tbl.src = "dvA" /\ tbl.value = Table(2, << <<1, 9>> >>)
    /\ tbl.raw = "dvA2"
    /\ Bytes("dvA") = Bytes("dvA2")
    /\ tbl.pending

\* C6: a plain accessor value is published unchanged, with no reader
\* invocation and no error, whatever the readiness and the previous value.
C6_PlainPassthrough ==
    (last.op = "accessorEffect" /\ acc.raw = "rgb") =>
        /\ acc.value = Plain(<<200, 0, 200>>)
        /\ last.reads = 0
        /\ last.err = "none"

\* C6 witness: [200, 0, 200] published while wasm is not ready.
C6_Witness ==
    /\ last.op = "accessorEffect"
    /\ acc.raw = "rgb"
    /\ ~acc.ready /\ ~WASM_READY
    /\ acc.value = Plain(<<200, 0, 200>>)

\* C7: with readiness true and a non-empty well-formed buffer, the accessor
\* effect publishes the first column of the decoded table: as many values as
\* the source column has, equal to them in order.
C7_FirstColumn ==
    (last.op = "accessorEffect" /\ acc.ready /\ acc.raw \in WellFormed) =>
        /\ acc.value.kind = "vector"
        /\ Len(acc.value.data) = Len(SourceColumns(acc.raw)[1])
        /\ acc.value = Vector(SourceColumns(acc.raw)[1])
        /\ acc.src = acc.raw

\* C7 witness: the single column [1, 9] of dvA is published.
C7_Witness ==
    /\ last.op = "accessorEffect"
    /\ acc.ready
    /\ acc.raw = "dvA"
    /\ acc.value = Vector(<<1, 9>>)

\* C8: in useTableBufferState a change of readiness or of the buffer
\* reference makes the effect pending, and the effect, run with readiness
\* true and a non-empty buffer, invokes the reader exactly once on that
\* buffer and publishes the table it returns (a reader error leaves no table
\* to publish).
C8_DecodeOnChange ==
    [][/\ ((renders' = renders + 1 /\ (tbl'.ready # tbl.ready \/ tbl'.raw # tbl.raw))
              => tbl'.pending)
       /\ ((tbl.pending /\ ~tbl'.pending /\ tbl.ready
              /\ tbl.raw \in DataViews /\ Len(Bytes(tbl.raw)) > 0) =>
              /\ last'.op = "tableEffect"
              /\ last'.reads = 1
              /\ (last'.err = "none" =>
                     /\ tbl.raw \in WellFormed
                     /\ tbl'.value = SourceTable(tbl.raw)
                     /\ tbl'.src = tbl.raw))
      ]_vars

\* C8 witness: the two-column table of dvT was decoded and published.
C8_Witness ==
    /\ last.op = "tableEffect"
    /\ last.reads = 1
    /\ tbl.ready /\ tbl.raw = "dvT"
    /\ tbl.value = Table(2, << <<3, 4>>, <<5, 6>> >>)

\* C9: the table effect run while readiness is false, or the buffer is
\* absent, or its byteLength is 0, invokes no decode and leaves the published
\* table as it was.
C9_NoDecodeKeepsTable ==
    [][(/\ tbl.pending /\ ~tbl'.pending
        /\ (~tbl.ready \/ tbl.raw = Absent \/ Len(Bytes(tbl.raw)) = 0)) =>
           /\ last'.reads = 0
           /\ last'.err = "none"
           /\ tbl'.value = tbl.value
           /\ tbl'.src = tbl.src
      ]_vars

\* C9 witness: the effect ran for an empty buffer and a table is retained.
C9_Witness ==
    /\ last.op = "tableEffect"
    /\ last.reads = 0
    /\ tbl.ready /\ tbl.raw = "dvEmpty"
    /\ tbl.value # Null

\* C10 (as claimed): for a DataView input the accessor effect does what the
\* table callback does on the same (readiness, buffer): it publishes the
\* first column exactly when the table callback publishes a table, and
\* otherwise publishes nothing and keeps its previous value.
C10_AccessorAsTable ==
    [][(acc.pending /\ ~acc'.pending /\ acc.raw \in DataViews) =>
           LET t == tableCallback(acc.ready, acc.raw) IN
           /\ last'.reads = t.reads
           /\ (t.set => acc'.value = getChildAt0(t.value))
           /\ (~t.set => acc'.value = acc.value)
      ]_vars

\* C10 (amended): for a DataView input the accessor effect publishes the
\* first column exactly when the table callback publishes a table, with the
\* same reader invocations and the same error; when readiness is false or
\* the buffer is empty it publishes null, replacing its previous value; when
\* the decode throws it keeps its previous value.
C10_AccessorAsTableOrNull ==
    [][(acc.pending /\ ~acc'.pending /\ acc.raw \in DataViews) =>
           LET t == tableCallback(acc.ready, acc.raw) IN
           /\ last'.reads = t.reads
           /\ last'.err = t.err
           /\ (t.set => acc'.value = getChildAt0(t.value) /\ acc'.src = acc.raw)
           /\ ((~t.set /\ t.err = "none") =>
                  acc'.value = Null /\ acc'.src = NoSource)
           /\ (t.err # "none" => acc'.value = acc.value /\ crashed')
      ]_vars

\* C10 witness: both hooks hold the same empty buffer with readiness true;
\* the table state retains a table, the accessor state has published null.
C10_Witness ==
    /\ last.op = "accessorEffect"
    /\ acc.ready /\ acc.raw = "dvEmpty" /\ tbl.raw = "dvEmpty"
    /\ ~tbl.pending
    /\ tbl.value # Null
    /\ acc.value = Null

\* C11: last write wins.  Once the effects have run with readiness true and
\* a non-empty buffer supplied, the published table is the decode of that
\* last buffer, whatever buffers were supplied and decoded before it.
C11_LastWriteWins ==
    (Settled /\ tbl.ready /\ tbl.raw \in DataViews /\ Len(Bytes(tbl.raw)) > 0) =>
        /\ tbl.raw \in WellFormed
        /\ tbl.src = tbl.raw
        /\ tbl.value = SourceTable(tbl.raw)

\* C11 witness: after the third change of buffer the table is that of dvA.
C11_Witness ==
    /\ Settled
    /\ renders = 3
    /\ last.op = "tableEffect" /\ last.reads = 1
    /\ tbl.raw = "dvA"
    /\ tbl.value = Table(2, << <<1, 9>> >>)

\* C12: a failed module load makes the call reject: the step leaves
\* WASM_READY, every wasmReady and the hooks' state as they were, the
\* component stays rejected with wasmReady false, and in a component whose
\* load failed no effect invokes the reader or publishes a decoded value.
C12_LoadFailure ==
    [][/\ \A c \in Comps :
              (last'.op = "loadRejected" /\ pc[c] = "loading" /\ pc'[c] # pc[c]) =>
                  /\ pc'[c] = "rejected"
                  /\ WASM_READY' = WASM_READY
                  /\ wasmReady' = wasmReady
                  /\ tbl' = tbl /\ acc' = acc
       /\ \A c \in Comps :
              pc[c] = "rejected" => (pc'[c] = "rejected" /\ ~wasmReady'[c])
       /\ pc[Owner] = "rejected" =>
              /\ (last'.op \in {"tableEffect", "accessorEffect"} => last'.reads = 0)
              /\ tbl'.value = Null
              /\ acc'.value.kind # "vector"
      ]_vars

\* C12 witness: the load of Owner failed while it holds a non-empty buffer;
\* its effects have run and nothing was decoded.
C12_Witness ==
    /\ pc[Owner] = "rejected"
    /\ ~WASM_READY
    /\ renders >= 1
    /\ tbl.raw = "dvA" /\ ~tbl.pending /\ tbl.value = Null
    /\ last.op = "tableEffect" /\ last.reads = 0

\* C13: once a load attempt has failed with WASM_READY false, no later step
\* invokes _initParquetWasm again and WASM_READY stays false.
C13_NoRetry ==
    [][((\E c \in Comps : pc[c] = "rejected") /\ ~WASM_READY) =>
           (initCalls' = initCalls /\ ~WASM_READY')
      ]_vars

\* C14: a decode fails atomically.  When parseParquet throws on a malformed
\* buffer inside an effect, the reader was invoked once, its error leaves the
\* effect as it is, the hook keeps the value it had published, and the
\* effect is not run again; every published table is a complete table.
C14_AtomicDecode ==
    [][/\ ((tbl.pending /\ ~tbl'.pending /\ last'.err # "none") =>
              /\ last'.err = "decode error"
              /\ last'.reads = 1
              /\ tbl'.value = tbl.value /\ tbl'.src = tbl.src
              /\ crashed')
       /\ ((acc.pending /\ ~acc'.pending /\ last'.err # "none") =>
              /\ last'.err = "decode error"
              /\ last'.reads = 1
              /\ acc'.value = acc.value /\ acc'.src = acc.src
              /\ crashed')
       /\ (crashed => (crashed' /\ (~tbl.pending => ~tbl'.pending)
                                /\ (~acc.pending => ~acc'.pending)))
       /\ (tbl'.value # Null =>
              \E v \in WellFormed : tbl'.value = SourceTable(v))
      ]_vars

\* C14 witness: the table effect threw on the truncated buffer while the
\* table of an earlier buffer stays published.
C14_Witness ==
    /\ last.op = "tableEffect"
    /\ last.err = "decode error"
    /\ tbl.raw = "dvBad"
    /\ tbl.value = Table(2, << <<1, 9>> >>)
    /\ crashed

C16_ReadyOnlyAfterLoad ==
    /\ ~WASM_READY
    /\ [][/\ (~WASM_READY /\ WASM_READY') =>
                 /\ last'.op = "loadResolved"
                 /\ \E c \in Comps : pc[c] = "loading" /\ pc'[c] = "resolved"
          /\ WASM_READY' =>
                 (initCalls' >= 1 /\ \E c \in Comps : pc'[c] \in {"resolved", "done"})
         ]_vars

\* C16 witness: one load failed, another resolved and set the flag.
C16_Witness ==
    /\ WASM_READY
    /\ last.op = "loadResolved"
    /\ \E c \in Comps : pc[c] = "rejected"

\* C17: initParquetWasm called while WASM_READY is true returns at once: it
\* does not invoke _initParquetWasm, does not suspend on a load, and leaves
\* WASM_READY as it is.
C17_ImmediateReturn ==
    [][\A c \in Comps :
           (WASM_READY /\ pc[c] = "mounted" /\ pc'[c] # "mounted") =>
               /\ initCalls' = initCalls
               /\ pc'[c] = "resolved"
               /\ WASM_READY'
      ]_vars

\* C17 witness: the second component called after the first one's load.
C17_Witness ==
    /\ last.op = "initParquetWasm"
    /\ WASM_READY
    /\ initCalls = 1
    /\ pc["c2"] = "resolved"

\* C18: parseParquet has no side effect.  A direct call, successful or
\* failing, changes nothing but its own outcome, and a call that throws
\* inside an effect leaves WASM_READY and the published values unchanged;
\* a published value changes only in the step of the hook's own effect.
C18_ParseHasNoSideEffect ==
    [][/\ (last'.op = "parseParquet" =>
              UNCHANGED <<WASM_READY, initCalls, pc, wasmReady, tbl, acc,
                          renders, crashed>>)
       /\ ((last'.op \in {"tableEffect", "accessorEffect"} /\ last'.reads = 1) =>
              /\ UNCHANGED <<WASM_READY, wasmReady, pc>>
              /\ (last'.err # "none" =>
                     tbl'.value = tbl.value /\ acc'.value = acc.value))
       /\ (tbl'.value # tbl.value =>
              last'.op \in {"tableEffect", "mount"})
       /\ (acc'.value # acc.value =>
              last'.op \in {"accessorEffect", "mount"})
      ]_vars

\* C18 witness: a direct call decoded dvT while the hooks keep what they
\* published from other buffers.
C18_Witness ==
    /\ last.op = "parseParquet"
    /\ last.err = "none"
    /\ last.result = Table(2, << <<3, 4>>, <<5, 6>> >>)
    /\ tbl.value = Table(2, << <<1, 9>> >>)
    /\ acc.value = Vector(<<1, 9>>)

\* C19: a component's wasmReady is true only when WASM_READY is true, so no
\* effect of the hooks ever fails with "wasm not ready".
C19_StateImpliesFlag ==
    /\ \A c \in Comps : wasmReady[c] => WASM_READY
    /\ (tbl.ready \/ acc.ready) => WASM_READY
    /\ last.op \in {"tableEffect", "accessorEffect"} => last.err # "wasm not ready"

\* C19 witness: both components called initParquetWasm before either load
\* had resolved, both are ready, and the table effect has decoded.
C19_Witness ==
    /\ initCalls = 2
    /\ wasmReady["c1"] /\ wasmReady["c2"]
    /\ last.op = "tableEffect" /\ last.reads = 1 /\ last.err = "none"

\* C20: a buffer supplied while readiness is false is not decoded by the
\* effect of that render; the render in which readiness turns true with the
\* same reference makes the effect pending again, that effect decodes a
\* non-empty buffer once and publishes it, and a further render with the
\* same reference and readiness leaves no effect pending.
C20_DecodedOnceReady ==
    [][/\ ((tbl.pending /\ ~tbl'.pending /\ ~tbl.ready) =>
              (last'.reads = 0 /\ tbl'.value = Null))
       /\ ((acc.pending /\ ~acc'.pending /\ ~acc.ready) => last'.reads = 0)
       /\ (renders' = renders + 1 =>
              /\ ((~tbl.ready /\ tbl'.ready /\ tbl'.raw = tbl.raw) => tbl'.pending)
              /\ ((~acc.ready /\ acc'.ready /\ acc'.raw = acc.raw) => acc'.pending)
              /\ ((tbl.ready /\ tbl'.raw = tbl.raw) => ~tbl'.pending)
              /\ ((acc.ready /\ acc'.raw = acc.raw) => ~acc'.pending))
       /\ ((tbl.pending /\ ~tbl'.pending /\ tbl.ready /\ tbl.raw \in WellFormed) =>
              /\ last'.reads = 1
              /\ tbl'.value = SourceTable(tbl.raw))
       /\ ((acc.pending /\ ~acc'.pending /\ acc.ready /\ acc.raw \in WellFormed) =>
              /\ last'.reads = 1
              /\ acc'.value = Vector(SourceColumns(acc.raw)[1]))
      ]_vars

\* C20 witness: the first re-render after mount found readiness true, and
\* its table effect, the first to decode, published the table of dvA.
C20_Witness ==
    /\ renders = 1
    /\ last.op = "tableEffect" /\ last.reads = 1
    /\ tbl.ready /\ tbl.raw = "dvA" /\ tbl.src = "dvA"
    /\ tbl.value = Table(2, << <<1, 9>> >>)

C23_TableNeverNullAgain ==
    [][/\ (tbl.value # Null => tbl'.value # Null)
       /\ ((tbl.value = Null /\ tbl'.value # Null) =>
              /\ last'.op = "tableEffect"
              /\ last'.reads = 1
              /\ last'.err = "none")
      ]_vars

\* C23 witness: the buffer became absent after a decode; the table stays.
C23_Witness ==
    /\ last.op = "tableEffect"
    /\ ~tbl.pending
    /\ tbl.raw = Absent
    /\ tbl.value # Null

\* C24: a useParquetWasm instance calls initParquetWasm in one step only,
\* the one that leaves "mounted", a position it never returns to, whatever
\* renders and changes of wasmReady follow; and its wasmReady turns true
\* only in the step that resumes after the call has resolved.
C24_InitOncePerInstance ==
    [][\A c \in Comps :
           /\ ((last'.op = "initParquetWasm" /\ pc'[c] # pc[c]) => pc[c] = "mounted")
           /\ (pc[c] \notin {"unmounted", "mounted"} =>
                  pc'[c] \notin {"unmounted", "mounted"})
           /\ (pc[c] = "mounted" => pc'[c] # "unmounted")
           /\ ((~wasmReady[c] /\ wasmReady'[c]) =>
                  (pc[c] = "resolved" /\ pc'[c] = "done"))
      ]_vars

\* C24 witness: Owner is ready and has rendered three more times, and
\* _initParquetWasm has been invoked once.
C24_Witness ==
    /\ last.op = "render"
    /\ renders = 3
    /\ pc[Owner] = "done" /\ wasmReady[Owner]
    /\ pc["c2"] = "unmounted"
    /\ initCalls = 1

\* C22: once the module is loaded, every mounted component eventually has
\* wasmReady true, and a well-formed non-empty buffer that Owner holds when
\* it is ready is eventually published as a table (unless it is replaced or
\* an effect throws first).
C22_EventuallyReady ==
    /\ \A c \in Comps : (WASM_READY /\ pc[c] # "unmounted") ~> wasmReady[c]
    /\ (wasmReady[Owner] /\ tbl.raw \in WellFormed) ~>
           (tbl.value # Null \/ tbl.raw \notin WellFormed \/ crashed)

\* The second half of C22 alone.
C22_BufferEventuallyPublished ==
    (wasmReady[Owner] /\ tbl.raw \in WellFormed) ~>
        (tbl.value # Null \/ tbl.raw \notin WellFormed \/ crashed)

====
